---- MODULE Spec2Model ----
(***************************************************************************)
(* Model of neuralgcm/api_test.py: APITest.test_stochastic_model_basics,   *)
(* the forecast round-trip validation run.  One action per statement group *)
(* of the test method; every collaborator call may raise, which ends the   *)
(* test method (a Python exception propagates out of the method).          *)
(*                                                                         *)
(* Times are whole hours.  Relative errors and tolerances are whole        *)
(* multiples of 1e-4 (0.04 is 400, 0.0005 is 5), with NaN kept apart.      *)
(***************************************************************************)
EXTENDS Integers, Sequences, FiniteSets, TLC

\* ---------------------------------------------------------------- bounds
\* latest initial time stamp a reference file may carry
MaxT0 == 1
\* longest time axis of a reference file that already has a time dimension
MaxTimeLen == 2
\* how many variables a checkpoint's output may differ by from the table's
MaxVarDiff == 1

\* ------------------------------------------------------- program constants
timesteps == 3
dt == 1
rng_key == 0

\* tolerance table of the test, in units of 1e-4
tolerance ==
  [ u_component_of_wind |-> 400,
    v_component_of_wind |-> 800,
    temperature |-> 200,
    geopotential |-> 5,
    specific_humidity |-> 30,
    specific_cloud_liquid_water_content |-> 1200,
    specific_cloud_ice_water_content |-> 1500 ]

TableVars == DOMAIN tolerance

\* variables dropped from the regridded dataset before comparison
ForcingVars == {"sea_surface_temperature", "sea_ice_cover"}

\* a further field a reference file and a checkpoint may carry
ExtraVars == {"surface_pressure"}

AllVars == TableVars \cup ForcingVars \cup ExtraVars

\* the reference file holds at least the table variables and the forcings
FileVarSets == {TableVars \cup ForcingVars \cup E : E \in SUBSET ExtraVars}

SymDiff(A, B) == (A \ B) \cup (B \ A)

\* variable sets a checkpoint's model may emit
ModelVarSets ==
  {S \in SUBSET AllVars : Cardinality(SymDiff(S, TableVars)) <= MaxVarDiff}

\* ------------------------------------------------------------ float values
NaN == [nan |-> TRUE, val |-> 0]
Num(x) == [nan |-> FALSE, val |-> x]

\* variant: the comparison admits equality
Less_orEqual(a, b) == (~a.nan) /\ a.val <= b

\* IEEE comparison a < b of a float against a finite threshold
Less(a, b) == (~a.nan) /\ a.val < b

\* ---------------------------------------------------------------- datasets
NoDataset == [timeIsDim |-> FALSE, times |-> <<>>, vars |-> {}, grid |-> "none"]
NoArrays == [axis0 |-> FALSE, times |-> <<>>, vars |-> {}]
NoEncoded == [state |-> NoArrays, forcings |-> NoArrays, key |-> -1]

RECURSIVE Ramp(_, _, _)
\* n consecutive values start, start+step, ...
Ramp(start, step, n) ==
  IF n = 0 THEN <<>> ELSE <<start>> \o Ramp(start + step, step, n - 1)

\* reference files: a snapshot with a scalar time coordinate, or a series
\* whose time coordinate is already a dimension
Files ==
  {[timeIsDim |-> FALSE, times |-> <<t>>, vars |-> vs, grid |-> "TL31"] :
     t \in 0..MaxT0, vs \in FileVarSets}
  \cup
  {[timeIsDim |-> TRUE, times |-> Ramp(t, dt, n), vars |-> vs, grid |-> "TL31"] :
     t \in 0..MaxT0, n \in 1..MaxTimeLen, vs \in FileVarSets}

VARIABLES
  pc,            \* statement group the test method is at
  file,          \* contents of data/era5_tl31_19590102T00.nc
  ckptVars,      \* variables the checkpoint's model emits
  model,         \* TRUE once PressureLevelModel.from_checkpoint returned
  ds_tl31, ds_in,
  data, forcings, data_in, forcings_in,
  encoded,
  unroll_forcings,   \* the forcings argument handed to model.unroll
  data_out,
  times,
  ds_out,
  actual, expected,
  typical_relative_error,
  verdict,       \* "none", "pass", "fail" (AssertionError), "error" (raise)
  raised,        \* what ended the run early, "" if nothing
  report,        \* variable/value pairs in the assertion message
  trace          \* statement groups entered so far, in order

vars == <<pc, file, ckptVars, model, ds_tl31, ds_in, data, forcings, data_in,
          forcings_in, encoded, unroll_forcings, data_out, times, ds_out,
          actual, expected, typical_relative_error, verdict, raised, report,
          trace>>

NoErrors == [v \in {} |-> NaN]

Init ==
  /\ pc = "load_model"
  /\ file \in Files
  /\ ckptVars \in ModelVarSets
  /\ model = FALSE
  /\ ds_tl31 = NoDataset
  /\ ds_in = NoDataset
  /\ data = NoArrays
  /\ forcings = NoArrays
  /\ data_in = NoArrays
  /\ forcings_in = NoArrays
  /\ encoded = NoEncoded
  /\ unroll_forcings = NoArrays
  /\ data_out = <<>>
  /\ times = <<>>
  /\ ds_out = NoDataset
  /\ actual = NoDataset
  /\ expected = NoDataset
  /\ typical_relative_error = NoErrors
  /\ verdict = "none"
  /\ raised = ""
  /\ report = {}
  /\ trace = <<>>

Range(s) == {s[i] : i \in 1..Len(s)}

\* variant: a step that raised is tried once more before the run gives up
Raise_retryOnce(step, what) ==
  /\ pc' = (IF step \in Range(trace) THEN "aborted" ELSE pc)
  /\ verdict' = (IF step \in Range(trace) THEN "error" ELSE verdict)
  /\ raised' = what
  /\ trace' = Append(trace, step)

\* an exception leaves the test method: nothing after the raising call runs
Raise(step, what) ==
  /\ pc' = "aborted"
  /\ verdict' = "error"
  /\ raised' = what
  /\ trace' = Append(trace, step)

\* variant: control passes over the shape assertion
Goto_skipShapeCheck(step, next) ==
  /\ pc' = (IF next = "allclose" THEN "error" ELSE next)
  /\ trace' = Append(trace, step)
  /\ UNCHANGED <<verdict, raised>>

\* the statement group completed and control falls through to the next one
Goto(step, next) ==
  /\ pc' = next
  /\ trace' = Append(trace, step)
  /\ UNCHANGED <<verdict, raised>>

\* ------------------------------------------------------------- 1 load model
LoadModel ==
  /\ pc = "load_model"
  /\ \E ok \in BOOLEAN :
       IF ok
       THEN /\ model' = TRUE
            /\ Goto("load_model", "load_data")
       ELSE /\ Raise("load_model", "collaborator")
            /\ UNCHANGED model
  /\ UNCHANGED <<file, ckptVars, ds_tl31, ds_in, data, forcings, data_in,
                 forcings_in, encoded, unroll_forcings, data_out, times,
                 ds_out, actual, expected, typical_relative_error, report>>

\* -------------------------------------------------------------- 2 load data
\* variant: an existing time dimension is accepted and left alone
ExpandDimsRaises_never(ds) == FALSE

\* xarray Dataset.expand_dims('time'): raises when 'time' is already a
\* dimension, otherwise promotes the scalar coordinate to a length-1 axis
ExpandDimsRaises(ds) == ds.timeIsDim

ExpandDims(ds) == [ds EXCEPT !.timeIsDim = TRUE]

LoadData ==
  /\ pc = "load_data"
  /\ \E ok \in BOOLEAN :
       IF ~ok
       THEN /\ Raise("load_data", "collaborator")
            /\ UNCHANGED ds_tl31
       ELSE IF ExpandDimsRaises(file)
       THEN /\ Raise("load_data", "expand_dims")
            /\ UNCHANGED ds_tl31
       ELSE /\ ds_tl31' = ExpandDims(file)
            /\ Goto("load_data", "regrid")
  /\ UNCHANGED <<file, ckptVars, model, ds_in, data, forcings, data_in,
                 forcings_in, encoded, unroll_forcings, data_out, times,
                 ds_out, actual, expected, typical_relative_error, report>>

\* ----------------------------------------------------------------- 3 regrid
\* apply_ufunc maps every variable over the non-horizontal dimensions and
\* the longitude/latitude coordinates become the model grid's
horizontal_regrid(dataset) == [dataset EXCEPT !.grid = "model"]

Regrid ==
  /\ pc = "regrid"
  /\ \E ok \in BOOLEAN :
       IF ok
       THEN /\ ds_in' = horizontal_regrid(ds_tl31)
            /\ Goto("regrid", "split")
       ELSE /\ Raise("regrid", "collaborator")
            /\ UNCHANGED ds_in
  /\ UNCHANGED <<file, ckptVars, model, ds_tl31, data, forcings, data_in,
                 forcings_in, encoded, unroll_forcings, data_out, times,
                 ds_out, actual, expected, typical_relative_error, report>>

\* ------------------------------------------------------------------ 4 split
\* model.data_from_xarray: prognostic fields and forcing fields, both still
\* carrying the time axis of the dataset
data_from_xarray(ds) ==
  << [axis0 |-> TRUE, times |-> ds.times, vars |-> ds.vars \ ForcingVars],
     [axis0 |-> TRUE, times |-> ds.times, vars |-> ds.vars \cap ForcingVars] >>

\* variant: the whole series is handed on unsliced
slice_along_axis_keepAxis(x, idx) == x

\* pytree_utils.slice_along_axis(x, axis=0, idx): the axis is indexed away
slice_along_axis(x, idx) ==
  [axis0 |-> FALSE, times |-> <<x.times[idx + 1]>>, vars |-> x.vars]

Split ==
  /\ pc = "split"
  /\ \E ok \in BOOLEAN :
       IF ok
       THEN /\ data' = data_from_xarray(ds_in)[1]
            /\ forcings' = data_from_xarray(ds_in)[2]
            /\ data_in' = slice_along_axis(data', 0)
            /\ forcings_in' = slice_along_axis(forcings', 0)
            /\ Goto("split", "encode")
       ELSE /\ Raise("split", "collaborator")
            /\ UNCHANGED <<data, forcings, data_in, forcings_in>>
  /\ UNCHANGED <<file, ckptVars, model, ds_tl31, ds_in, encoded,
                 unroll_forcings, data_out, times, ds_out, actual, expected,
                 typical_relative_error, report>>

\* ----------------------------------------------------------------- 5 encode
EncodeStep ==
  /\ pc = "encode"
  /\ \E ok \in BOOLEAN :
       IF ok
       THEN /\ encoded' = [state |-> data_in, forcings |-> forcings_in,
                           key |-> rng_key]
            /\ Goto("encode", "unroll")
       ELSE /\ Raise("encode", "collaborator")
            /\ UNCHANGED encoded
  /\ UNCHANGED <<file, ckptVars, model, ds_tl31, ds_in, data, forcings,
                 data_in, forcings_in, unroll_forcings, data_out, times,
                 ds_out, actual, expected, typical_relative_error, report>>

\* --------------------------------------------------------------- 6 roll out
\* model.unroll: steps snapshots; with start_with_input the first one is the
\* encoded initial condition (lead 0), otherwise the state one step later
unroll(enc, steps, timedelta, start_with_input) ==
  [i \in 1..steps |->
     [lead |-> (IF start_with_input THEN i - 1 ELSE i) * timedelta,
      from |-> enc.state.times[1],
      vars |-> ckptVars]]

Unroll ==
  /\ pc = "unroll"
  /\ \E ok \in BOOLEAN :
       IF ok
       THEN /\ unroll_forcings' = forcings
            /\ data_out' = unroll(encoded, timesteps, dt, TRUE)
            /\ Goto("unroll", "reassemble")
       ELSE /\ Raise("unroll", "collaborator")
            /\ UNCHANGED <<unroll_forcings, data_out>>
  /\ UNCHANGED <<file, ckptVars, model, ds_tl31, ds_in, data, forcings,
                 data_in, forcings_in, encoded, times, ds_out, actual,
                 expected, typical_relative_error, report>>

\* ------------------------------------------------------------- 7 reassemble
\* variant: the time stamps start one step after start
arange_fromNext(start, stop, step) ==
  [i \in 1..(IF stop > start THEN (stop - start + step - 1) \div step ELSE 0)
     |-> start + i * step]

\* np.arange(start, stop, step): ceil((stop - start) / step) values
\* start, start + step, ...
arange(start, stop, step) ==
  [i \in 1..(IF stop > start THEN (stop - start + step - 1) \div step ELSE 0)
     |-> start + (i - 1) * step]

\* model.data_to_xarray(data_out, times): one time stamp per snapshot
data_to_xarray_raises(snapshots, ts) == Len(snapshots) # Len(ts)

data_to_xarray(snapshots, ts) ==
  [timeIsDim |-> TRUE, times |-> ts,
   vars |-> IF snapshots = <<>> THEN {} ELSE snapshots[1].vars,
   grid |-> "model"]

Reassemble ==
  /\ pc = "reassemble"
  /\ \E ok \in BOOLEAN :
       LET t0 == ds_tl31.times[1]
           ts == arange(t0, t0 + timesteps * dt, dt)
       IN IF ok /\ ~data_to_xarray_raises(data_out, ts)
          THEN /\ times' = ts
               /\ ds_out' = data_to_xarray(data_out, ts)
               /\ Goto("reassemble", "select")
          ELSE /\ Raise("reassemble", "collaborator")
               /\ UNCHANGED <<times, ds_out>>
  /\ UNCHANGED <<file, ckptVars, model, ds_tl31, ds_in, data, forcings,
                 data_in, forcings_in, encoded, unroll_forcings, data_out,
                 actual, expected, typical_relative_error, report>>

\* ---------------------------------------------------------------- 8 compare
\* an assertion of the test fails: the method ends with a failure verdict
Fail(step, what) ==
  /\ pc' = "done"
  /\ verdict' = "fail"
  /\ raised' = what
  /\ trace' = Append(trace, step)

Min(a, b) == IF a < b THEN a ELSE b

\* Dataset.head(time=n): the first n entries along time
head(ds, n) == [ds EXCEPT !.times = SubSeq(ds.times, 1, Min(n, Len(ds.times)))]

\* Dataset.drop_vars(names): raises when a name is not in the dataset
drop_vars_raises(ds, names) == ~(names \subseteq ds.vars)

drop_vars(ds, names) == [ds EXCEPT !.vars = ds.vars \ names]

\* 8a, 8b
Select ==
  /\ pc = "select"
  /\ IF drop_vars_raises(ds_in, ForcingVars)
     THEN /\ Raise("select", "drop_vars")
          /\ UNCHANGED <<actual, expected>>
     ELSE /\ actual' = head(ds_out, 1)
          /\ expected' = drop_vars(ds_in, ForcingVars)
          /\ Goto("select", "allclose")
  /\ UNCHANGED <<file, ckptVars, model, ds_tl31, ds_in, data, forcings,
                 data_in, forcings_in, encoded, unroll_forcings, data_out,
                 times, ds_out, typical_relative_error, report>>

\* variant: only the variables both datasets have are looked at
allclose_commonVars(a, b, valuesClose) ==
  /\ a.timeIsDim = b.timeIsDim
  /\ a.times = b.times
  /\ a.grid = b.grid
  /\ valuesClose

\* xarray.testing.assert_allclose on two Datasets: the same variables and
\* coordinates, the same dimensions and sizes, and close values
allclose(a, b, valuesClose) ==
  /\ a.vars = b.vars
  /\ a.timeIsDim = b.timeIsDim
  /\ a.times = b.times
  /\ a.grid = b.grid
  /\ valuesClose

\* 8c
AssertAllclose ==
  /\ pc = "allclose"
  /\ \E valuesClose \in BOOLEAN :
       IF allclose(actual, expected, valuesClose)
       THEN Goto("allclose", "error")
       ELSE Fail("allclose", "assert_allclose")
  /\ UNCHANGED <<file, ckptVars, model, ds_tl31, ds_in, data, forcings,
                 data_in, forcings_in, encoded, unroll_forcings, data_out,
                 times, ds_out, actual, expected, typical_relative_error,
                 report>>

\* values a variable's median(|actual - expected|) / std(expected) may take:
\* undefined, or just below, at, or just above the variable's threshold
ErrorValue(v, k) ==
  IF k = 0 THEN NaN
  ELSE Num((IF v \in TableVars THEN tolerance[v] ELSE 1) + k - 2)

\* Dataset arithmetic keeps the variables both operands have
CommonVars(a, b) == a.vars \cap b.vars

\* 8d
ComputeError ==
  /\ pc = "error"
  /\ \E k \in [CommonVars(actual, expected) -> 0..3] :
       typical_relative_error' =
         [v \in CommonVars(actual, expected) |-> ErrorValue(v, k[v])]
  /\ Goto("error", "tolerance")
  /\ UNCHANGED <<file, ckptVars, model, ds_tl31, ds_in, data, forcings,
                 data_in, forcings_in, encoded, unroll_forcings, data_out,
                 times, ds_out, actual, expected, report>>

\* typical_relative_error < tolerance: Dataset comparison, variable by
\* variable over the variables both operands have
LessThan(err, tol) ==
  [v \in (DOMAIN err) \cap (DOMAIN tol) |-> Less(err[v], tol[v])]

\* .to_array().values.all()
to_array_raises(ds) == DOMAIN ds = {}

All(ds) == \A v \in DOMAIN ds : ds[v]

\* variant: the message names the offending variables only
Message_offending(err) ==
  {<<v, err[v]>> : v \in {w \in (DOMAIN err) \cap TableVars :
                             ~Less(err[w], tolerance[w])}}

\* the f-string of the assertion message prints the whole error Dataset
\* (its repr lists every data variable while there are at most twelve, and
\* the datasets here have at most eight)
Message(err) == {<<v, err[v]>> : v \in DOMAIN err}

\* 8e
AssertTolerance ==
  /\ pc = "tolerance"
  /\ LET below == LessThan(typical_relative_error, tolerance)
     IN IF to_array_raises(below)
        THEN /\ Raise("tolerance", "to_array")
             /\ UNCHANGED report
        ELSE IF All(below)
        THEN /\ pc' = "done"
             /\ verdict' = "pass"
             /\ trace' = Append(trace, "tolerance")
             /\ UNCHANGED <<raised, report>>
        ELSE /\ Fail("tolerance", "assertTrue")
             /\ report' = Message(typical_relative_error)
  /\ UNCHANGED <<file, ckptVars, model, ds_tl31, ds_in, data, forcings,
                 data_in, forcings_in, encoded, unroll_forcings, data_out,
                 times, ds_out, actual, expected, typical_relative_error>>

Next ==
  \/ LoadModel
  \/ LoadData
  \/ Regrid
  \/ Split
  \/ EncodeStep
  \/ Unroll
  \/ Reassemble
  \/ Select
  \/ AssertAllclose
  \/ ComputeError
  \/ AssertTolerance

Spec == Init /\ [][Next]_vars

\* ------------------------------------------------------------------ helpers
Last(s) == s[Len(s)]

NoDup(s) == \A i, j \in 1..Len(s) : s[i] = s[j] => i = j

StepOrder ==
  << "load_model", "load_data", "regrid", "split", "encode", "unroll",
     "reassemble", "select", "allclose", "error", "tolerance" >>

Steps1to7 ==
  {"load_model", "load_data", "regrid", "split", "encode", "unroll",
   "reassemble"}

CompareSteps == {"select", "allclose", "error", "tolerance"}

\* the Compare step came to its tolerance assertion and gave a verdict
ToleranceJudged == pc = "done" /\ Last(trace) = "tolerance"

\* the seven thresholds as the tolerance claim lists them, in units of 1e-4
SevenThresholds ==
  { <<"u_component_of_wind", 400>>, <<"v_component_of_wind", 800>>,
    <<"temperature", 200>>, <<"geopotential", 5>>,
    <<"specific_humidity", 30>>,
    <<"specific_cloud_liquid_water_content", 1200>>,
    <<"specific_cloud_ice_water_content", 1500>> }

SevenVars == {p[1] : p \in SevenThresholds}

StrictlyBelow(p) ==
  /\ p[1] \in DOMAIN typical_relative_error
  /\ ~typical_relative_error[p[1]].nan
  /\ typical_relative_error[p[1]].val < p[2]

\* C1: the tolerance assertion gives a pass verdict exactly when each of the
\* seven table variables has a typical relative error strictly below its
\* threshold; an error at or above the threshold of any one of them fails.
C1_PassIffAllBelow ==
  ToleranceJudged =>
    /\ verdict \in {"pass", "fail"}
    /\ verdict = "pass" <=> \A p \in SevenThresholds : StrictlyBelow(p)

\* a run failing only because one variable's error equals its threshold
C1_Witness ==
  /\ ToleranceJudged
  /\ verdict = "fail"
  /\ \E p \in SevenThresholds :
       /\ typical_relative_error[p[1]] = Num(p[2])
       /\ \A q \in SevenThresholds \ {p} : StrictlyBelow(q)

ThresholdBreach == verdict = "fail" /\ raised = "assertTrue"

\* C2: when the run fails on a threshold breach, the failure report holds
\* the computed error of every compared variable, all seven table variables
\* among them, and not only of the variables that breached.
C2_ReportHasAllErrors ==
  ThresholdBreach =>
    /\ \A v \in DOMAIN typical_relative_error :
         <<v, typical_relative_error[v]>> \in report
    /\ SevenVars \subseteq {r[1] : r \in report}

\* a breach by one variable only, reported with the six that did not breach
C2_Witness ==
  /\ ThresholdBreach
  /\ \E p \in SevenThresholds :
       /\ ~StrictlyBelow(p)
       /\ \A q \in SevenThresholds \ {p} :
            StrictlyBelow(q) /\ <<q[1], typical_relative_error[q[1]]>> \in report

StepFailed == raised \in {"collaborator", "expand_dims"}

\* C3: when one of the steps 1 to 7 fails the run aborts there: the step is
\* not tried again, no later step and no part of Compare runs, and neither
\* a pass verdict nor a partial result (error table, report) is produced.
C3_AbortOnStepFailure ==
  /\ [](StepFailed =>
          /\ pc = "aborted"
          /\ verdict = "error"
          /\ Last(trace) \in Steps1to7
          /\ NoDup(trace)
          /\ Range(trace) \cap CompareSteps = {}
          /\ actual = NoDataset
          /\ typical_relative_error = NoErrors
          /\ report = {})
  /\ [][StepFailed => UNCHANGED vars]_vars

\* the roll-out raised after the five steps before it had completed
C3_Witness ==
  /\ StepFailed
  /\ pc = "aborted"
  /\ trace = SubSeq(StepOrder, 1, 6)

\* C4: the steps run in the fixed order load model, load data, regrid,
\* split, encode, roll out, reassemble, compare, each at most once and only
\* after all earlier ones; in Compare the shape/closeness assertion comes
\* before the tolerance assertion.
C4_FixedOrder ==
  /\ Len(trace) <= Len(StepOrder)
  /\ trace = SubSeq(StepOrder, 1, Len(trace))
  /\ (pc \notin {"done", "aborted"}) => pc = StepOrder[Len(trace) + 1]

\* a run that went through every step up to the tolerance assertion
C4_Witness == pc = "done" /\ verdict = "pass" /\ trace = StepOrder

Reassembled == ds_out # NoDataset

\* C5: the rollout output and the time stamps attached at Reassemble both
\* have exactly N = timesteps elements, element i carries t0 + i*dt, and
\* element 0 is the initial condition at t0, which is the slice compared.
C5_RolloutTimes ==
  Reassembled =>
    LET t0 == file.times[1] IN
      /\ Len(data_out) = 3
      /\ Len(times) = 3
      /\ ds_out.times = times
      /\ \A i \in 0..2 :
           /\ times[i + 1] = t0 + i
           /\ data_out[i + 1].lead = i
           /\ data_out[i + 1].from = t0
      /\ actual # NoDataset => actual.times = <<t0>>

\* the first slice was selected from a reassembled output starting late
C5_Witness ==
  /\ Reassembled
  /\ actual # NoDataset
  /\ file.times[1] = MaxT0
  /\ times = <<MaxT0, MaxT0 + 1, MaxT0 + 2>>

ShapesAsserted ==
  \/ pc \in {"error", "tolerance"}
  \/ pc = "done" /\ raised # "assert_allclose"

\* C6: once the shape assertion has passed, the variables of the output's
\* first slice are those of the regridded dataset without
\* sea_surface_temperature and sea_ice_cover, hence a subset of them; a run
\* whose two variable sets differ does not reach a pass verdict.
C6_OutputVarsAreRegriddedMinusForcing ==
  /\ ShapesAsserted =>
       /\ actual.vars = ds_in.vars \ {"sea_surface_temperature", "sea_ice_cover"}
       /\ actual.vars = expected.vars
       /\ ds_out.vars \subseteq ds_in.vars
  /\ (expected # NoDataset /\ actual.vars # expected.vars) => verdict # "pass"

\* a passing run on a file and a checkpoint that both carry a further field
C6_Witness ==
  /\ verdict = "pass"
  /\ actual.vars = SevenVars \cup ExtraVars
  /\ ds_in.vars = actual.vars \cup ForcingVars

LoadDataDecided ==
  /\ Len(trace) >= 2
  /\ ~(Len(trace) = 2 /\ raised = "collaborator")

\* C8 as stated: the load adds a size-1 time dimension when there is none,
\* and on a dataset that already has one it succeeds and leaves it as it is.
C8_Original ==
  LoadDataDecided =>
    /\ ds_tl31.timeIsDim
    /\ ds_tl31.times = file.times
    /\ ds_tl31.vars = file.vars

\* C8 amended: the load adds a size-1 time dimension when there is none; on
\* a dataset that already has a time dimension the load raises and the run
\* aborts, so every dataset leaving the step has a time axis of length one.
C8_LoadAddsTimeOrRaises ==
  LoadDataDecided =>
    IF file.timeIsDim
    THEN /\ pc = "aborted"
         /\ raised = "expand_dims"
         /\ verdict = "error"
         /\ ds_tl31 = NoDataset
    ELSE /\ ds_tl31.timeIsDim
         /\ ds_tl31.times = file.times
         /\ Len(ds_tl31.times) = 1
         /\ ds_tl31.vars = file.vars
         /\ ds_tl31.grid = file.grid

\* a two-entry series was refused by the load
C8_Witness ==
  /\ file.timeIsDim
  /\ Len(file.times) = 2
  /\ raised = "expand_dims"

RolledOut == data_out # <<>>

EncodeGotSliceUnrollGotSeries ==
  /\ ~encoded.state.axis0
  /\ ~encoded.forcings.axis0
  /\ encoded.state.times = <<file.times[1]>>
  /\ encoded.forcings.times = <<file.times[1]>>
  /\ encoded.state.vars = data.vars
  /\ encoded.forcings.vars = forcings.vars
  /\ unroll_forcings = forcings
  /\ unroll_forcings.axis0
  /\ unroll_forcings.vars = ForcingVars

\* C9 as stated: Encode got only the slice at time index 0, unroll got the
\* unsliced forcings series, and that series has an entry for every output
\* time stamp t0, t0+dt, ..., t0+(steps-1)*dt.
C9_Original ==
  RolledOut =>
    /\ EncodeGotSliceUnrollGotSeries
    /\ \A i \in 0..2 : file.times[1] + i \in Range(unroll_forcings.times)

\* C9 amended: Encode got only the slice at time index 0 and unroll got the
\* unsliced forcings series; that series has the single entry t0 of the
\* loaded snapshot, so of the output time stamps it covers t0 alone.
C9_ForcingsSeriesIsSnapshot ==
  RolledOut =>
    /\ EncodeGotSliceUnrollGotSeries
    /\ unroll_forcings.times = <<file.times[1]>>
    /\ \A i \in 1..2 : file.times[1] + i \notin Range(unroll_forcings.times)

\* the roll-out ran on the forcings of a snapshot file
C9_Witness ==
  /\ RolledOut
  /\ Len(data_out) = 3
  /\ unroll_forcings.times = <<file.times[1]>>
  /\ ~file.timeIsDim

\* C10: in a passing run every variable of the compared datasets has a
\* tolerance and was compared against it, every tolerance-table variable is
\* in the compared datasets, and no compared error is undefined.
C10_NoVariableEscapes ==
  verdict = "pass" =>
    /\ actual.vars \subseteq SevenVars
    /\ SevenVars \subseteq actual.vars
    /\ \A v \in actual.vars :
         /\ v \in DOMAIN typical_relative_error
         /\ ~typical_relative_error[v].nan
====
